---- MODULE Spec2Model ----
(***************************************************************************)
(* Job queue service of docs/problemsolutions/job-queue-service.           *)
(*                                                                         *)
(* The FastAPI engine (src/fastapi_app.py) runs on one asyncio event loop. *)
(* A coroutine gives up the loop only where an await really suspends:      *)
(*   - queue_immediate.get() on an empty queue,                            *)
(*   - asyncio.sleep(delay) in delayed_requeue,                            *)
(*   - asyncio.wait_for(queue_immediate.put(item), 1.0) on a full queue.   *)
(* `async with lock` never suspends: the lock is only ever held across     *)
(* code that has no await, so it is free at every acquire, and             *)
(* asyncio.Lock.acquire returns at once on a free lock.  The idem_*        *)
(* coroutines and rl_consume* therefore run to completion inside their     *)
(* caller.  Each action below is one such run between two suspensions.     *)
(* A worker that finishes a job goes straight back to get(); when the      *)
(* queue is not empty it takes the next job without suspending, which the  *)
(* variable `running` records.                                             *)
(*                                                                         *)
(* Time is the wall clock now() in ticks; tokens are fixed-point numbers   *)
(* with TOKEN units to the token, so that fractions of a token exist.      *)
(* The configuration values are scaled down to keep the state space        *)
(* finite and small.                                                       *)
(***************************************************************************)
EXTENDS Integers, Sequences, FiniteSets, TLC

\* ---------------------------------------------------------------- config
WORKERS == 2
MAX_ATTEMPTS == 3
TOKEN == 2
RATE_CAPACITY == 8
RATE_REFILL_PER_SEC == 3
CLIENT_RATE_CAPACITY == 6
CLIENT_RATE_REFILL_PER_SEC == 1
IDEMP_TTL == 2
\* backoff times in hundredths of a second
BACKOFF_BASE == 10
BACKOFF_CAP == 100
JITTER == 20

\* ---------------------------------------------------------------- bounds
MaxJobs == 2
MaxClock == 3
MaxRequeues == 1
MaxNextAttempt == 6

Workers == 1..WORKERS
NoTask == 0
Stopped == 0 - 1
NoKey == ""
Keys == {"k1"}
Clients == {"c1"}
FailTimes == {0, 1, MAX_ATTEMPTS}
FailTimesAll == 0..MAX_ATTEMPTS
Limits == {1, 2}
ListLimits == {0, 1, 2}
QMax == {1, 2}

Min(a, b) == IF a < b THEN a ELSE b
Max(a, b) == IF a > b THEN a ELSE b

VARIABLES
  queue_immediate,   \* asyncio.Queue(maxsize=Q_MAX): sequence of items
  maxsize,           \* queue_immediate.maxsize, fixed at construction
  processed, failures, enqueued, in_progress,
  dlq,               \* list of dead-lettered items, oldest first
  idempotency,       \* key -> record (status "absent": no entry)
  tokens, last_refill,
  client_buckets,    \* client_id -> bucket (present FALSE: no entry)
  clock,             \* now()
  task,              \* worker -> [pc, item]: where worker_loop is suspended
  running,           \* the worker that holds the event loop, or NoTask
  reply,             \* the answer of the handler call that made this state
  log,               \* history: one record per admitted job, by item id
  done_live,         \* history: key -> time of the last success that found the key's record live, or -1
  requeues,          \* history: number of dlq_requeue calls
  burst,             \* history: bucket -> the calls made on it at its last instant of use
  idem_db,           \* sqlite table idem(k PRIMARY KEY, status, expires): set of rows
  backoff,           \* history: the last delay computed, [n, u, delay]
  idem_nosweep,      \* the idempotency table of a twin run that is never swept
  app                \* the threaded variant (app.py): job_q, counters, dlq, threads, main

vars == <<queue_immediate, maxsize, processed, failures, enqueued, in_progress, dlq,
          idempotency, tokens, last_refill, client_buckets, clock, task,
          running, reply, log, done_live, requeues, burst, idem_db, backoff,
          idem_nosweep, app>>

NoItem == [id |-> 0, attempt |-> 0, fail_times |-> 0, key |-> NoKey]
NoReply == [op |-> "none", st |-> "", db |-> "", twin |-> "", key |-> NoKey, n |-> 0, limit |-> 0,
            items |-> <<>>]
Absent == [status |-> "absent", expires_at |-> 0]
NoBucket == [present |-> FALSE, tokens |-> 0, last |-> 0]
NoBurst == [at |-> -1, k |-> 0, elapsed |-> 0, oks |-> 0, failed |-> FALSE]
Global == "global"
NoBackoff == [n |-> 0, u |-> 0, delay |-> 0]

\* ---------------------------------------------------------- token bucket
\* Variant: a refill that is not capped at the capacity.
tb_refill_uncapped(b, t, capacity, rate) ==
  [tokens |-> b.tokens + Max(0, t - b.last) * rate, last |-> t]

\* The refill-then-subtract of rl_consume / rl_consume_client on one bucket
\* b = [tokens, last] at time t; n is the cost.
tb_refill(b, t, capacity, rate) ==
  [tokens |-> Min(capacity, b.tokens + Max(0, t - b.last) * rate), last |-> t]

\* Variant: the cost is subtracted even when the call is rejected.
tb_consume_always(b, t, capacity, rate, n) ==
  LET r == tb_refill(b, t, capacity, rate)
  IN [ok |-> r.tokens >= n, b |-> [r EXCEPT !.tokens = @ - n]]

tb_consume(b, t, capacity, rate, n) ==
  LET r == tb_refill(b, t, capacity, rate)
  IN IF r.tokens >= n
     THEN [ok |-> TRUE, b |-> [r EXCEPT !.tokens = @ - n]]
     ELSE [ok |-> FALSE, b |-> r]

rl_consume(n) ==
  tb_consume([tokens |-> tokens, last |-> last_refill], clock,
             RATE_CAPACITY, RATE_REFILL_PER_SEC, n)

\* The client's bucket, created full at the first call.
client_bucket(client_id) ==
  IF client_buckets[client_id].present
  THEN [tokens |-> client_buckets[client_id].tokens,
        last |-> client_buckets[client_id].last]
  ELSE [tokens |-> CLIENT_RATE_CAPACITY, last |-> clock]

rl_consume_client(client_id, n) ==
  tb_consume(client_bucket(client_id), clock,
             CLIENT_RATE_CAPACITY, CLIENT_RATE_REFILL_PER_SEC, n)

\* History of one bucket: a call at time t on bucket b = [tokens, last] that
\* was answered ok.  The first call at a new instant starts a burst and
\* records what the bucket held and how long it had not been used.
burst_call(h, t, b, ok) ==
  IF h.at = t
  THEN [h EXCEPT !.oks = IF ok THEN @ + 1 ELSE @, !.failed = @ \/ ~ok]
  ELSE [at |-> t, k |-> b.tokens, elapsed |-> t - b.last,
        oks |-> IF ok THEN 1 ELSE 0, failed |-> ~ok]

\* ------------------------------------------------------------ idempotency
idem_get_status(idem, key, t) ==
  IF idem[key].status = "absent" THEN "none"
  ELSE IF idem[key].expires_at > t THEN idem[key].status ELSE "none"

idem_set_accepted(idem, key, t) ==
  [idem EXCEPT ![key] = [status |-> "accepted", expires_at |-> t + IDEMP_TTL]]

\* Variant: completion marks the record without extending its expiry.
idem_set_completed_no_refresh(idem, key, t) ==
  IF idem[key].status = "absent" THEN idem
  ELSE [idem EXCEPT ![key].status = "completed"]

idem_set_completed(idem, key, t) ==
  IF idem[key].status = "absent" THEN idem
  ELSE [idem EXCEPT ![key] = [status |-> "completed", expires_at |-> t + IDEMP_TTL]]

\* Variant: the sweep spares the records that expire at t.
idem_sweep_strict(idem, t) ==
  [k \in DOMAIN idem |->
     IF idem[k].status # "absent" /\ idem[k].expires_at < t THEN Absent ELSE idem[k]]

idem_sweep(idem, t) ==
  [k \in DOMAIN idem |->
     IF idem[k].status # "absent" /\ idem[k].expires_at <= t THEN Absent ELSE idem[k]]

\* ---- the sqlite backend: the statements each function executes
\* SELECT status, expires FROM idem WHERE k=? ... fetchone()
sqlite_select(db, key) == {row \in db : row.k = key}

\* idem_get_status: no row, or a row whose expires is falsy or not after t,
\* gives None
sqlite_get_status(db, key, t) ==
  IF sqlite_select(db, key) = {} THEN "none"
  ELSE LET row == CHOOSE r \in sqlite_select(db, key) : TRUE
       IN IF row.expires # 0 /\ row.expires > t THEN row.status ELSE "none"

\* idem_set_accepted: INSERT OR REPLACE INTO idem(k,status,expires,result)
sqlite_set_accepted(db, key, t) ==
  (db \ sqlite_select(db, key))
    \cup {[k |-> key, status |-> "accepted", expires |-> t + IDEMP_TTL]}

\* idem_set_completed: UPDATE idem SET status=?, expires=? WHERE k=?
sqlite_set_completed(db, key, t) ==
  {IF row.k = key THEN [row EXCEPT !.status = "completed", !.expires = t + IDEMP_TTL]
   ELSE row : row \in db}

\* Variant: the sweep spares the rows that expire at t.
sqlite_sweep_strict(db, t) == {row \in db : ~(row.expires < t)}

\* _idem_sweeper: DELETE FROM idem WHERE expires<=?
sqlite_sweep(db, t) == {row \in db : ~(row.expires <= t)}

\* Variant: a put that ignores maxsize.
put_nowait_unbounded(q, item) == [ok |-> TRUE, q |-> Append(q, item)]

\* ------------------------------------------------------------------ queue
full(q) == Len(q) >= maxsize

\* Variant: a put that jumps the queue.
put_nowait_front(q, item) ==
  IF full(q) THEN [ok |-> FALSE, q |-> q] ELSE [ok |-> TRUE, q |-> <<item>> \o q]

put_nowait(q, item) ==
  IF full(q) THEN [ok |-> FALSE, q |-> q] ELSE [ok |-> TRUE, q |-> Append(q, item)]

\* Variant: the head is read but stays in the queue.
get_peek(q) == [item |-> Head(q), q |-> q]

\* get() on a queue that holds an item: the head leaves the queue.
get_nowait(q) == [item |-> Head(q), q |-> Tail(q)]

\* ------------------------------------------------------------------- init
\* ---------------------------------------------------------------------------
\* The threaded variant (app.py): the values it keeps in one record, app.
\* ---------------------------------------------------------------------------

\* bounds of the threaded variant: the queue's capacity and the number of POSTs
AppQMax == 2
MaxPosts == 2

\* what json.loads can return for the body of POST /enqueue.  A value is None
\* (body null), a dict, or anything else (number, string, list, boolean).  Of a
\* dict only the entries the worker reads are kept: "attempt" and "fail_times",
\* each with the value int() gives for it and whether int() accepts it at all
\* (int("x") and int(None) raise); an absent entry reads as the default 0.
PyNone == [kind |-> "none", attempt |-> 0, attempt_int |-> TRUE,
           fail_times |-> 0, fail_times_int |-> TRUE]
PyOther == [PyNone EXCEPT !.kind = "other"]
PyDict(a, a_int, f, f_int) ==
  [kind |-> "dict", attempt |-> a, attempt_int |-> a_int,
   fail_times |-> f, fail_times_int |-> f_int]

AttemptValues == {0 - 1, 0, MAX_ATTEMPTS}
AppFailTimes == {0, 1, MAX_ATTEMPTS}
Bodies ==
  {PyNone, PyOther}
    \cup {PyDict(a, TRUE, f, TRUE) : a \in AttemptValues, f \in AppFailTimes}
    \cup {PyDict(0, FALSE, 0, TRUE), PyDict(0, TRUE, 0, FALSE)}

\* an entry of job_q: the value, and the number of the POST that brought it
\* (0 for the sentinels main puts)
QItem(v, id) == [v |-> v, id |-> id]
NoQItem == QItem(PyOther, 0)

\* module state after import and before main starts serving: empty queue,
\* zero counters, empty dlq; the threads main starts are at job_q.get()
AppStart ==
  [job_q |-> <<>>, processed |-> 0, failures |-> 0, dlq |-> <<>>,
   threads |-> [w \in Workers |-> [pc |-> "get", item |-> NoQItem, nones |-> 0]],
   main |-> [pc |-> "serve_forever", puts |-> 0, joined |-> 0],
   posts |-> 0,
   runs |-> [j \in 1..MaxPosts |-> 0],
   fails |-> [j \in 1..MaxPosts |-> 0]]

Init ==
  /\ queue_immediate = <<>>
  /\ maxsize \in QMax
  /\ processed = 0 /\ failures = 0 /\ enqueued = 0 /\ in_progress = 0
  /\ dlq = <<>>
  /\ idempotency = [k \in Keys |-> Absent]
  /\ tokens = RATE_CAPACITY /\ last_refill = 0
  /\ client_buckets = [c \in Clients |-> NoBucket]
  /\ clock = 0
  /\ task = [w \in Workers |-> [pc |-> "get", item |-> NoItem]]
  /\ running = NoTask
  /\ reply = NoReply
  /\ log = <<>>
  /\ done_live = [k \in Keys |-> -1]
  /\ requeues = 0
  /\ burst = [b \in Clients \cup {Global} |-> NoBurst]
  /\ idem_db = {}
  /\ backoff = NoBackoff
  /\ idem_nosweep = [k \in Keys |-> Absent]
  /\ app = AppStart

\* ---------------------------------------------------------------- enqueue
\* Variant: the key is recorded before the queue is tried.
idem_before_put(idem, key, t, st) ==
  IF key # NoKey /\ st \in {"enqueued", "queue_full"}
  THEN idem_set_accepted(idem, key, t) ELSE idem

\* Variant: the record is written only after the handler has given way to
\* other submits.
idem_written_later(idem, key, t, st) == idem

\* enqueue: the idempotency table after the handler; idem_set_accepted is
\* called only once put_nowait has succeeded.
idem_after_enqueue(idem, key, t, st) ==
  IF key # NoKey /\ st = "enqueued" THEN idem_set_accepted(idem, key, t) ELSE idem

\* Variant: the client's bucket is asked before the global one.
enqueue_status_client_first(client_id, idem_key, item) ==
  IF ~rl_consume_client(client_id, TOKEN).ok THEN "rate_limited_client"
  ELSE IF ~rl_consume(TOKEN).ok THEN "rate_limited"
  ELSE IF idem_key # NoKey /\ idem_get_status(idempotency, idem_key, clock) # "none"
       THEN idem_get_status(idempotency, idem_key, clock)
  ELSE IF full(queue_immediate) THEN "queue_full"
  ELSE IF ~put_nowait(queue_immediate, item).ok THEN "queue_full"
  ELSE "enqueued"

\* POST /enqueue, one run of the handler (it never suspends).
enqueue_status(client_id, idem_key, item) ==
  IF ~rl_consume(TOKEN).ok THEN "rate_limited"
  ELSE IF ~rl_consume_client(client_id, TOKEN).ok THEN "rate_limited_client"
  ELSE IF idem_key # NoKey /\ idem_get_status(idempotency, idem_key, clock) # "none"
       THEN idem_get_status(idempotency, idem_key, clock)
  ELSE IF full(queue_immediate) THEN "queue_full"
  ELSE IF ~put_nowait(queue_immediate, item).ok THEN "queue_full"
  ELSE "enqueued"

Enqueue(client_id, idem_key, fail_times) ==
  LET item == [id |-> Len(log) + 1, attempt |-> 0, fail_times |-> fail_times,
               key |-> idem_key]
      st == enqueue_status(client_id, idem_key, item)
      g == rl_consume(TOKEN).b
      c == rl_consume_client(client_id, TOKEN).b
  IN /\ running = NoTask
     /\ tokens' = g.tokens
     /\ last_refill' = g.last
     /\ client_buckets' =
          IF st = "rate_limited" THEN client_buckets
          ELSE [client_buckets EXCEPT ![client_id] =
                  [present |-> TRUE, tokens |-> c.tokens, last |-> c.last]]
     /\ IF st = "enqueued"
        THEN /\ queue_immediate' = put_nowait(queue_immediate, item).q
             /\ idempotency' = idem_after_enqueue(idempotency, idem_key, clock, st)
             /\ enqueued' = enqueued + 1
             /\ log' = Append(log, [key |-> idem_key, fail_times |-> fail_times,
                                    at |-> clock, exec |-> 0, proc |-> 0, dead |-> 0,
                                    cause |-> "", waited |-> FALSE, requeued |-> FALSE])
        ELSE /\ idempotency' = idem_after_enqueue(idempotency, idem_key, clock, st)
             /\ UNCHANGED <<queue_immediate, enqueued, log>>
     /\ reply' = [NoReply EXCEPT !.op = "enqueue", !.st = st, !.key = idem_key]
     /\ burst' =
          [b \in DOMAIN burst |->
             IF b = Global
               THEN burst_call(burst[b], clock,
                               [tokens |-> tokens, last |-> last_refill],
                               rl_consume(TOKEN).ok)
             ELSE IF b = client_id /\ st # "rate_limited"
               THEN burst_call(burst[b], clock, client_bucket(b),
                               rl_consume_client(b, TOKEN).ok)
             ELSE burst[b]]
     /\ UNCHANGED <<maxsize, processed, failures, in_progress, dlq, clock, task,
                    running, done_live, requeues, idem_db, backoff, idem_nosweep, app>>

\* Variant: one retry too many.
should_retry_inclusive(next_attempt) == next_attempt <= MAX_ATTEMPTS

\* Variant: the budget is cut one execution short.
should_retry_short(next_attempt) == next_attempt + 1 < MAX_ATTEMPTS

\* ----------------------------------------------------------------- worker
\* process_job's retry decision.
should_retry(next_attempt) == next_attempt < MAX_ATTEMPTS

\* Variant: the incremented attempt is stored before the budget is tested.
dead_item_bumped(item, next_attempt) == [item EXCEPT !.attempt = next_attempt]

\* The dict process_job appends to dlq when the budget is exhausted: the
\* item as dequeued (item["attempt"] is only assigned on the retry branch).
dead_item(item, next_attempt) == item

\* Variant: the worker forgets to count the job out.
task_done_forgotten(n) == n

\* worker_loop, `finally`: in_progress = max(0, in_progress - 1).
task_done(n) == Max(0, n - 1)

\* worker_loop after `finally`: back at get(), which returns at once when the
\* queue q holds an item.
back_to_get(w, q) == IF q # <<>> THEN w ELSE NoTask

idle(w) == [task EXCEPT ![w] = [pc |-> "get", item |-> NoItem]]

\* the workers suspended inside process_job (in delayed_requeue)
InProcessJob == {w \in Workers : task[w].pc \in {"sleep", "put"}}

\* get() returns the head; process_job succeeds.
Succeed(w) ==
  /\ running \in {NoTask, w}
  /\ task[w].pc = "get"
  /\ queue_immediate # <<>>
  /\ LET item == get_nowait(queue_immediate).item
         q == get_nowait(queue_immediate).q
     IN /\ ~(item.attempt < item.fail_times)
        /\ queue_immediate' = q
        /\ processed' = processed + 1
        /\ in_progress' = task_done(in_progress + 1)
        /\ idempotency' = IF item.key # NoKey
                          THEN idem_set_completed(idempotency, item.key, clock)
                          ELSE idempotency
        /\ done_live' = IF item.key # NoKey
                           /\ idem_get_status(idempotency, item.key, clock) # "none"
                        THEN [done_live EXCEPT ![item.key] = clock]
                        ELSE done_live
        /\ log' = [log EXCEPT ![item.id].exec = @ + 1, ![item.id].proc = @ + 1]
        /\ running' = back_to_get(w, q)
  /\ reply' = NoReply
  /\ UNCHANGED <<maxsize, failures, enqueued, dlq, tokens, last_refill, client_buckets,
                 clock, task, requeues, burst, idem_db, backoff, idem_nosweep, app>>

\* get() returns the head; process_job fails and awaits delayed_requeue:
\* the worker suspends in asyncio.sleep(delay) holding the item.
FailRetry(w) ==
  /\ running \in {NoTask, w}
  /\ task[w].pc = "get"
  /\ queue_immediate # <<>>
  /\ LET item == get_nowait(queue_immediate).item
         next_attempt == item.attempt + 1
     IN /\ item.attempt < item.fail_times
        /\ should_retry(next_attempt)
        /\ queue_immediate' = get_nowait(queue_immediate).q
        /\ failures' = failures + 1
        /\ in_progress' = in_progress + 1
        /\ task' = [task EXCEPT ![w] =
                      [pc |-> "sleep", item |-> [item EXCEPT !.attempt = next_attempt]]]
        /\ log' = [log EXCEPT ![item.id].exec = @ + 1]
        /\ running' = NoTask
  /\ reply' = NoReply
  /\ UNCHANGED <<maxsize, processed, enqueued, dlq, idempotency, tokens, last_refill,
                 client_buckets, clock, done_live, requeues, burst, idem_db, backoff,
                 idem_nosweep, app>>

\* get() returns the head; process_job fails with the budget exhausted.
FailDead(w) ==
  /\ running \in {NoTask, w}
  /\ task[w].pc = "get"
  /\ queue_immediate # <<>>
  /\ LET item == get_nowait(queue_immediate).item
         q == get_nowait(queue_immediate).q
         next_attempt == item.attempt + 1
     IN /\ item.attempt < item.fail_times
        /\ ~should_retry(next_attempt)
        /\ queue_immediate' = q
        /\ failures' = failures + 1
        /\ in_progress' = task_done(in_progress + 1)
        /\ dlq' = Append(dlq, dead_item(item, next_attempt))
        /\ log' = [log EXCEPT ![item.id].exec = @ + 1, ![item.id].dead = @ + 1,
                              ![item.id].cause = "exhausted"]
        /\ running' = back_to_get(w, q)
  /\ reply' = NoReply
  /\ UNCHANGED <<maxsize, processed, enqueued, idempotency, tokens, last_refill,
                 client_buckets, clock, task, done_live, requeues, burst, idem_db, backoff,
                 idem_nosweep, app>>

\* delayed_requeue: the sleep is over and put_nowait finds room.
RequeueNow(w) ==
  /\ running = NoTask
  /\ task[w].pc = "sleep"
  /\ LET r == put_nowait(queue_immediate, task[w].item)
     IN /\ r.ok
        /\ queue_immediate' = r.q
        /\ running' = back_to_get(w, r.q)
  /\ in_progress' = task_done(in_progress)
  /\ task' = idle(w)
  /\ reply' = NoReply
  /\ UNCHANGED <<maxsize, processed, failures, enqueued, dlq, idempotency, tokens,
                 last_refill, client_buckets, clock, log, done_live, requeues, burst, idem_db,
                 backoff, idem_nosweep, app>>

\* Variant: QueueFull is swallowed and the item is dropped.
on_queue_full_drop(t) == [pc |-> "get", item |-> NoItem]

\* delayed_requeue, `except asyncio.QueueFull`: the task goes on to the
\* bounded put of the same item.
on_queue_full(t) == [t EXCEPT !.pc = "put"]

\* delayed_requeue: the sleep is over, put_nowait raises QueueFull and the
\* worker suspends in wait_for(put(item), 1.0).
RequeueWait(w) ==
  /\ running = NoTask
  /\ task[w].pc = "sleep"
  /\ ~put_nowait(queue_immediate, task[w].item).ok
  /\ task' = [task EXCEPT ![w] = on_queue_full(task[w])]
  /\ log' = [log EXCEPT ![task[w].item.id].waited = TRUE]
  /\ reply' = NoReply
  /\ UNCHANGED <<maxsize, queue_immediate, processed, failures, enqueued, in_progress, dlq,
                 idempotency, tokens, last_refill, client_buckets, clock, running,
                 done_live, requeues, burst, idem_db, backoff, idem_nosweep, app>>

\* delayed_requeue: put(item) finds room before the timeout.
PutDone(w) ==
  /\ running = NoTask
  /\ task[w].pc = "put"
  /\ LET r == put_nowait(queue_immediate, task[w].item)
     IN /\ r.ok
        /\ queue_immediate' = r.q
        /\ running' = back_to_get(w, r.q)
  /\ in_progress' = task_done(in_progress)
  /\ task' = idle(w)
  /\ reply' = NoReply
  /\ UNCHANGED <<maxsize, processed, failures, enqueued, dlq, idempotency, tokens,
                 last_refill, client_buckets, clock, log, done_live, requeues, burst, idem_db,
                 backoff, idem_nosweep, app>>

\* delayed_requeue: wait_for raises TimeoutError; the item is dead-lettered.
PutTimeout(w) ==
  /\ running = NoTask
  /\ task[w].pc = "put"
  /\ dlq' = Append(dlq, task[w].item)
  /\ log' = [log EXCEPT ![task[w].item.id].dead = @ + 1,
                        ![task[w].item.id].cause = "shed"]
  /\ in_progress' = task_done(in_progress)
  /\ task' = idle(w)
  /\ running' = back_to_get(w, queue_immediate)
  /\ reply' = NoReply
  /\ UNCHANGED <<maxsize, queue_immediate, processed, failures, enqueued, idempotency,
                 tokens, last_refill, client_buckets, clock, done_live, requeues, burst,
                 idem_db, backoff, idem_nosweep, app>>

\* ------------------------------------------------------------ dlq requeue
\* Variant: the newest entry is popped first.
RECURSIVE requeue_loop_newest(_, _, _, _)
requeue_loop_newest(d, q, moved, limit) ==
  IF d # <<>> /\ moved < limit
  THEN LET item == d[Len(d)]
           rest == SubSeq(d, 1, Len(d) - 1)
           r == put_nowait(q, item)
       IN IF r.ok
          THEN requeue_loop_newest(rest, r.q, moved + 1, limit)
          ELSE [dlq |-> <<item>> \o rest, q |-> q, moved |-> moved + 1]
  ELSE [dlq |-> d, q |-> q, moved |-> moved]

\* Variant: an entry whose move filled the queue is moved and also kept.
RECURSIVE requeue_loop_copy(_, _, _, _)
requeue_loop_copy(d, q, moved, limit) ==
  IF d # <<>> /\ moved < limit
  THEN LET item == Head(d)
           r == put_nowait(q, item)
       IN IF r.ok
          THEN LET rest == requeue_loop_copy(Tail(d), r.q, moved + 1, limit)
               IN [rest EXCEPT !.dlq = IF full(r.q) THEN <<item>> \o @ ELSE @]
          ELSE [dlq |-> <<item>> \o Tail(d), q |-> q, moved |-> moved + 1]
  ELSE [dlq |-> d, q |-> q, moved |-> moved]

\* Variant: the entry that found the queue full is not put back.
RECURSIVE requeue_loop_lose(_, _, _, _)
requeue_loop_lose(d, q, moved, limit) ==
  IF d # <<>> /\ moved < limit
  THEN LET item == Head(d)
           r == put_nowait(q, item)
       IN IF r.ok
          THEN requeue_loop_lose(Tail(d), r.q, moved + 1, limit)
          ELSE [dlq |-> Tail(d), q |-> q, moved |-> moved + 1]
  ELSE [dlq |-> d, q |-> q, moved |-> moved]

\* Variant: a moved job starts over with attempt 0.
RECURSIVE requeue_loop_reset(_, _, _, _)
requeue_loop_reset(d, q, moved, limit) ==
  IF d # <<>> /\ moved < limit
  THEN LET item == Head(d)
           r == put_nowait(q, [item EXCEPT !.attempt = 0])
       IN IF r.ok
          THEN requeue_loop_reset(Tail(d), r.q, moved + 1, limit)
          ELSE [dlq |-> <<item>> \o Tail(d), q |-> q, moved |-> moved + 1]
  ELSE [dlq |-> d, q |-> q, moved |-> moved]

RECURSIVE requeue_loop(_, _, _, _)
requeue_loop(d, q, moved, limit) ==
  IF d # <<>> /\ moved < limit
  THEN LET item == Head(d)
           r == put_nowait(q, item)
       IN IF r.ok
          THEN requeue_loop(Tail(d), r.q, moved + 1, limit)
          ELSE [dlq |-> <<item>> \o Tail(d), q |-> q, moved |-> moved + 1]
  ELSE [dlq |-> d, q |-> q, moved |-> moved]

\* POST /dlq/requeue
DlqRequeue(limit) ==
  LET r == requeue_loop(dlq, queue_immediate, 0, limit)
      movedIds == {r.q[i].id : i \in (Len(queue_immediate) + 1)..Len(r.q)}
  IN /\ running = NoTask
     /\ requeues < MaxRequeues
     /\ dlq' = r.dlq
     /\ queue_immediate' = r.q
     /\ reply' = [NoReply EXCEPT !.op = "requeue", !.n = r.moved, !.limit = limit]
     /\ log' = [j \in DOMAIN log |->
                  IF j \in movedIds THEN [log[j] EXCEPT !.requeued = TRUE] ELSE log[j]]
     /\ requeues' = requeues + 1
     /\ UNCHANGED <<maxsize, processed, failures, enqueued, in_progress, idempotency, tokens,
                    last_refill, client_buckets, clock, task, running, done_live, burst,
                    idem_db, backoff, idem_nosweep, app>>

\* Python's s[start:] : a negative start counts from the end, and both ends
\* are clamped to the sequence.
py_slice_from(s, start) ==
  LET from == IF start < 0 THEN Max(0, Len(s) + start) ELSE Min(start, Len(s))
  IN SubSeq(s, from + 1, Len(s))

dlq_list(d, limit) ==
  [count |-> Len(d), items |-> py_slice_from(d, 0 - limit)]

\* GET /dlq
DlqList(limit) ==
  LET r == dlq_list(dlq, limit)
  IN /\ running = NoTask
     /\ reply' = [NoReply EXCEPT !.op = "dlq", !.n = r.count, !.limit = limit,
                                 !.items = r.items]
     /\ UNCHANGED <<queue_immediate, maxsize, processed, failures, enqueued, in_progress,
                    dlq, idempotency, tokens, last_refill, client_buckets, clock, task,
                    running, log, done_live, requeues, burst, idem_db, backoff, idem_nosweep,
                    app>>

\* ------------------------------------------------------------- background
\* One round of _idem_sweeper (memory backend).
Sweep ==
  /\ running = NoTask
  /\ idempotency' = idem_sweep(idempotency, clock)
  /\ reply' = NoReply
  /\ UNCHANGED <<maxsize, queue_immediate, processed, failures, enqueued, in_progress, dlq,
                 tokens, last_refill, client_buckets, clock, task, running, log,
                 done_live, requeues, burst, idem_db, backoff, idem_nosweep, app>>

\* A worker the event loop will run next without waiting: get() has an item.
ready(w) == task[w].pc = "get" /\ queue_immediate # <<>>

\* The wall clock advances by one tick.  A tick is long against the time the
\* loop needs to run a ready task: the loop runs every ready task before it
\* blocks in select(), so the clock only advances while no worker is ready
\* (sleeps and waits for room may span ticks).
Tick ==
  /\ clock < MaxClock
  /\ running = NoTask
  /\ \A w \in Workers : ~ready(w)
  /\ clock' = clock + 1
  /\ reply' = NoReply
  /\ UNCHANGED <<maxsize, queue_immediate, processed, failures, enqueued, in_progress, dlq,
                 idempotency, tokens, last_refill, client_buckets, task, running,
                 log, done_live, requeues, burst, idem_db, backoff, idem_nosweep, app>>

WorkerStep(w) ==
  \/ Succeed(w) \/ FailRetry(w) \/ FailDead(w)
  \/ RequeueNow(w) \/ RequeueWait(w) \/ PutDone(w) \/ PutTimeout(w)

\* A call of POST /enqueue; the model admits at most `jobs` jobs.
Submit(keys, fails, jobs) ==
  \E c \in Clients, k \in keys, f \in fails :
    /\ enqueue_status(c, k, NoItem) = "enqueued" => Len(log) < jobs
    /\ Enqueue(c, k, f)

Next ==
  \/ Submit(Keys \cup {NoKey}, FailTimes, MaxJobs)
  \/ \E w \in Workers : WorkerStep(w)
  \/ \E l \in Limits : DlqRequeue(l)
  \/ \E l \in ListLimits : DlqList(l)
  \/ Sweep
  \/ Tick

Spec == Init /\ [][Next]_vars

\* A burst: every request arrives within one clock tick, so the rate limiter
\* itself bounds the number of admitted jobs (BurstJobs); the jobs carry no
\* idempotency key.
BurstJobs == CLIENT_RATE_CAPACITY \div TOKEN

BurstNext ==
  \/ Submit({NoKey}, FailTimes, BurstJobs)
  \/ \E w \in Workers : WorkerStep(w)
  \/ \E l \in Limits : DlqRequeue(l)

BurstSpec == Init /\ [][BurstNext]_vars

\* ---------------------------------------------------------------- backoff
RECURSIVE pow2(_)
pow2(e) == IF e = 0 THEN 1 ELSE 2 * pow2(e - 1)

\* process_job: base = BACKOFF_BASE * (2 ** (next_attempt - 1))
backoff_base(next_attempt) == BACKOFF_BASE * pow2(next_attempt - 1)

\* Variant: the cap is left out.
backoff_delay_uncapped(next_attempt, u) == backoff_base(next_attempt) + u

\* process_job: delay = min(base + random.uniform(0, JITTER), BACKOFF_CAP);
\* u is the value random.uniform returned.
backoff_delay(next_attempt, u) == Min(backoff_base(next_attempt) + u, BACKOFF_CAP)

\* random.uniform(0, JITTER)
Jitters == 0..JITTER

\* The delay computation of a retry with the given next_attempt.  The
\* values of next_attempt go beyond MAX_ATTEMPTS - 1, as with a larger
\* retry budget configured.
Schedule(next_attempt, u) ==
  /\ backoff' = [n |-> next_attempt, u |-> u, delay |-> backoff_delay(next_attempt, u)]
  /\ UNCHANGED <<queue_immediate, maxsize, processed, failures, enqueued, in_progress, dlq,
                 idempotency, tokens, last_refill, client_buckets, clock, task, running,
                 reply, log, done_live, requeues, burst, idem_db, idem_nosweep, app>>

DelayNext == \E n \in 1..MaxNextAttempt, u \in Jitters : Schedule(n, u)

DelaySpec == Init /\ [][DelayNext]_vars

\* ------------------------------------------------------------ two clients
\* The service called by two clients, X-Client-Id c1 and c2, within one
\* instant of now().
AdmitClients == {"c1", "c2"}

AdmitInit ==
  /\ queue_immediate = <<>>
  /\ maxsize \in QMax
  /\ processed = 0 /\ failures = 0 /\ enqueued = 0 /\ in_progress = 0
  /\ dlq = <<>>
  /\ idempotency = [k \in Keys |-> Absent]
  /\ tokens = RATE_CAPACITY /\ last_refill = 0
  /\ client_buckets = [c \in AdmitClients |-> NoBucket]
  /\ clock = 0
  /\ task = [w \in Workers |-> [pc |-> "get", item |-> NoItem]]
  /\ running = NoTask
  /\ reply = NoReply
  /\ log = <<>>
  /\ done_live = [k \in Keys |-> -1]
  /\ requeues = 0
  /\ burst = [b \in AdmitClients \cup {Global} |-> NoBurst]
  /\ idem_db = {}
  /\ backoff = NoBackoff
  /\ idem_nosweep = [k \in Keys |-> Absent]
  /\ app = AppStart

SubmitFrom(clients, keys, fails, jobs) ==
  \E c \in clients, k \in keys, f \in fails :
    /\ enqueue_status(c, k, NoItem) = "enqueued" => Len(log) < jobs
    /\ Enqueue(c, k, f)

AdmitNext ==
  \/ SubmitFrom(AdmitClients, Keys \cup {NoKey}, FailTimes, MaxJobs)
  \/ \E w \in Workers : WorkerStep(w)

AdmitSpec == AdmitInit /\ [][AdmitNext]_vars

\* ------------------------------------------- the two idempotency backends
\* The same calls made on the memory table and on the sqlite table, at the
\* same reading of now().
IdemKeys == {"k1", "k2"}

IdemInit ==
  /\ queue_immediate = <<>>
  /\ maxsize \in QMax
  /\ processed = 0 /\ failures = 0 /\ enqueued = 0 /\ in_progress = 0
  /\ dlq = <<>>
  /\ idempotency = [k \in IdemKeys |-> Absent]
  /\ tokens = RATE_CAPACITY /\ last_refill = 0
  /\ client_buckets = [c \in Clients |-> NoBucket]
  /\ clock = 0
  /\ task = [w \in Workers |-> [pc |-> "get", item |-> NoItem]]
  /\ running = NoTask
  /\ reply = NoReply
  /\ log = <<>>
  /\ done_live = [k \in Keys |-> -1]
  /\ requeues = 0
  /\ burst = [b \in Clients \cup {Global} |-> NoBurst]
  /\ idem_db = {}
  /\ backoff = NoBackoff
  /\ idem_nosweep = [k \in IdemKeys |-> Absent]
  /\ app = AppStart

IdemGet(key) ==
  /\ reply' = [NoReply EXCEPT !.op = "idem_get", !.key = key,
                              !.st = idem_get_status(idempotency, key, clock),
                              !.db = sqlite_get_status(idem_db, key, clock)]
  /\ UNCHANGED <<queue_immediate, maxsize, processed, failures, enqueued, in_progress, dlq,
                 idempotency, tokens, last_refill, client_buckets, clock, task, running,
                 log, done_live, requeues, burst, idem_db, backoff, idem_nosweep, app>>

IdemSetAccepted(key) ==
  /\ idempotency' = idem_set_accepted(idempotency, key, clock)
  /\ idem_db' = sqlite_set_accepted(idem_db, key, clock)
  /\ reply' = NoReply
  /\ UNCHANGED <<queue_immediate, maxsize, processed, failures, enqueued, in_progress, dlq,
                 tokens, last_refill, client_buckets, clock, task, running, log, done_live,
                 requeues, burst, backoff, idem_nosweep, app>>

IdemSetCompleted(key) ==
  /\ idempotency' = idem_set_completed(idempotency, key, clock)
  /\ idem_db' = sqlite_set_completed(idem_db, key, clock)
  /\ reply' = NoReply
  /\ UNCHANGED <<queue_immediate, maxsize, processed, failures, enqueued, in_progress, dlq,
                 tokens, last_refill, client_buckets, clock, task, running, log, done_live,
                 requeues, burst, backoff, idem_nosweep, app>>

IdemSweep ==
  /\ idempotency' = idem_sweep(idempotency, clock)
  /\ idem_db' = sqlite_sweep(idem_db, clock)
  /\ reply' = NoReply
  /\ UNCHANGED <<queue_immediate, maxsize, processed, failures, enqueued, in_progress, dlq,
                 tokens, last_refill, client_buckets, clock, task, running, log, done_live,
                 requeues, burst, backoff, idem_nosweep, app>>

IdemNext ==
  \/ \E k \in IdemKeys : IdemGet(k)
  \/ \E k \in IdemKeys : IdemSetAccepted(k)
  \/ \E k \in IdemKeys : IdemSetCompleted(k)
  \/ IdemSweep
  \/ Tick

IdemSpec == IdemInit /\ [][IdemNext]_vars

\* ------------------------------------------------- runs with and without sweep
\* Two runs of the memory backend with the same calls at the same reading of
\* now(): the sweeper runs in the first (idempotency) and never in the twin
\* (idem_nosweep).
TwinGet(key) ==
  /\ reply' = [NoReply EXCEPT !.op = "twin_get", !.key = key,
                              !.st = idem_get_status(idempotency, key, clock),
                              !.twin = idem_get_status(idem_nosweep, key, clock)]
  /\ UNCHANGED <<queue_immediate, maxsize, processed, failures, enqueued, in_progress, dlq,
                 idempotency, tokens, last_refill, client_buckets, clock, task, running,
                 log, done_live, requeues, burst, idem_db, backoff, idem_nosweep, app>>

TwinSetAccepted(key) ==
  /\ idempotency' = idem_set_accepted(idempotency, key, clock)
  /\ idem_nosweep' = idem_set_accepted(idem_nosweep, key, clock)
  /\ reply' = NoReply
  /\ UNCHANGED <<queue_immediate, maxsize, processed, failures, enqueued, in_progress, dlq,
                 tokens, last_refill, client_buckets, clock, task, running, log, done_live,
                 requeues, burst, idem_db, backoff, app>>

TwinSetCompleted(key) ==
  /\ idempotency' = idem_set_completed(idempotency, key, clock)
  /\ idem_nosweep' = idem_set_completed(idem_nosweep, key, clock)
  /\ reply' = NoReply
  /\ UNCHANGED <<queue_immediate, maxsize, processed, failures, enqueued, in_progress, dlq,
                 tokens, last_refill, client_buckets, clock, task, running, log, done_live,
                 requeues, burst, idem_db, backoff, app>>

\* one round of _idem_sweeper in the first run
TwinSweep ==
  /\ idempotency' = idem_sweep(idempotency, clock)
  /\ reply' = NoReply
  /\ UNCHANGED <<queue_immediate, maxsize, processed, failures, enqueued, in_progress, dlq,
                 tokens, last_refill, client_buckets, clock, task, running, log, done_live,
                 requeues, burst, idem_db, backoff, idem_nosweep, app>>

TwinNext ==
  \/ \E k \in IdemKeys : TwinGet(k)
  \/ \E k \in IdemKeys : TwinSetAccepted(k)
  \/ \E k \in IdemKeys : TwinSetCompleted(k)
  \/ TwinSweep
  \/ Tick

TwinSpec == IdemInit /\ [][TwinNext]_vars

\* ---------------------------------------------------------------- shutdown
\* A cancelled worker: CancelledError is raised at the await where it is
\* suspended. At get() nothing else runs. Inside process_job (asyncio.sleep
\* or wait_for(put) of delayed_requeue) it is a BaseException that neither
\* `except Exception` nor `except asyncio.TimeoutError` catches; it leaves
\* process_job, worker_loop's `finally` runs and the task ends. The item the
\* worker held is referenced by nothing afterwards.
cancel(t) == [pc |-> "cancelled", item |-> NoItem]

RECURSIVE task_done_times(_, _)
task_done_times(n, k) == IF k = 0 THEN n ELSE task_done_times(task_done(n), k - 1)

\* shutdown: every worker task is cancelled and awaited. The running field
\* becomes Stopped: no task is scheduled and no handler runs any more.
Shutdown ==
  /\ running # Stopped
  /\ task' = [w \in Workers |-> cancel(task[w])]
  /\ in_progress' = task_done_times(in_progress, Cardinality(InProcessJob))
  /\ running' = Stopped
  /\ reply' = NoReply
  /\ UNCHANGED <<queue_immediate, maxsize, processed, failures, enqueued, dlq, idempotency,
                 tokens, last_refill, client_buckets, clock, log, done_live, requeues,
                 burst, idem_db, backoff, idem_nosweep, app>>

ShutdownNext ==
  \/ BurstNext
  \/ Shutdown

ShutdownSpec == Init /\ [][ShutdownNext]_vars

\* Unkeyed jobs with every value of fail_times up to the budget.
RetryNext ==
  \/ Submit({NoKey}, FailTimesAll, MaxJobs)
  \/ \E w \in Workers : WorkerStep(w)
  \/ \E l \in Limits : DlqRequeue(l)

RetrySpec == Init /\ [][RetryNext]_vars

\* The burst behaviours with reads of the dlq in between.
DlqNext ==
  \/ BurstNext
  \/ \E l \in ListLimits : DlqList(l)

DlqSpec == Init /\ [][DlqNext]_vars

\* The burst under the scheduling the event loop and its timers give: every
\* worker that can take a step eventually takes one.
LiveSpec == BurstSpec /\ \A w \in Workers : WF_vars(WorkerStep(w))

\* Every job carries the idempotency key; time passes.
KeyNext ==
  \/ Submit(Keys, FailTimes, MaxJobs)
  \/ \E w \in Workers : WorkerStep(w)
  \/ \E l \in Limits : DlqRequeue(l)
  \/ Sweep
  \/ Tick

KeySpec == Init /\ [][KeyNext]_vars

\* ------------------------------------------------------------ job places
InQueue(j) == \E i \in DOMAIN queue_immediate : queue_immediate[i].id = j
InDlq(j) == \E i \in DOMAIN dlq : dlq[i].id = j
Held(j) == \E w \in Workers : task[w].pc \in {"sleep", "put"} /\ task[w].item.id = j
Jobs == DOMAIN log

RECURSIVE SumProc(_)
SumProc(n) == IF n = 0 THEN 0 ELSE log[n].proc + SumProc(n - 1)

\* ---------------------------------------------------------------- claims
\* C2: in a run without a dlq_requeue call no admitted job is counted in
\* processed more than once or dead-lettered more than once, and none is both
\* processed and dead-lettered; processed counts exactly the successes.
C2_OneOutcome ==
  requeues = 0 =>
    /\ \A j \in Jobs :
         /\ log[j].proc <= 1
         /\ log[j].dead <= 1
         /\ log[j].proc + log[j].dead <= 1
         /\ (log[j].proc = 1 => ~InDlq(j))
         /\ Cardinality({i \in DOMAIN dlq : dlq[i].id = j}) = log[j].dead
    /\ processed = SumProc(Len(log))

\* A job that failed, was retried and then counted in processed.
C2_Witness ==
  /\ requeues = 0
  /\ \E j \in Jobs : log[j].proc = 1 /\ log[j].exec = 2
  /\ \E j \in Jobs : log[j].dead = 1 /\ InDlq(j)

\* C3: the queue never holds more than maxsize items (admission, retry
\* re-enqueue, bounded-wait re-enqueue and dlq_requeue all respect it).
C3_QueueBounded == Len(queue_immediate) >= 0 /\ Len(queue_immediate) <= maxsize

\* The queue is at capacity and holds a job re-enqueued by the retry path and
\* a job moved back by dlq_requeue.
C3_Witness ==
  /\ Len(queue_immediate) = maxsize
  /\ \E i \in DOMAIN queue_immediate :
        queue_immediate[i].attempt > 0 /\ ~log[queue_immediate[i].id].requeued
  /\ \E i \in DOMAIN queue_immediate : log[queue_immediate[i].id].requeued

AlwaysFails(j) ==
  log[j].fail_times >= MAX_ATTEMPTS /\ ~log[j].waited /\ ~log[j].requeued

C9_State ==
  \A j \in Jobs :
    AlwaysFails(j) =>
      /\ log[j].exec <= MAX_ATTEMPTS
      /\ log[j].proc = 0
      /\ (log[j].exec = MAX_ATTEMPTS <=> InDlq(j))
      /\ (InDlq(j) => (/\ log[j].dead = 1
                       /\ log[j].cause = "exhausted"
                       /\ ~InQueue(j)
                       /\ ~Held(j)))

C9_Step ==
  \A j \in Jobs :
    InDlq(j) /\ (~InDlq(j)' \/ InQueue(j)' \/ Held(j)') => reply'.op = "requeue"

C9_ExactlyMaxAttempts == []C9_State /\ [][C9_Step]_vars

\* An always-failing job in the dlq after MAX_ATTEMPTS executions, while
\* another job has been moved back by dlq_requeue.
C9_Witness ==
  /\ \E j \in Jobs : AlwaysFails(j) /\ InDlq(j) /\ log[j].exec = MAX_ATTEMPTS
  /\ \E j \in Jobs : log[j].requeued /\ log[j].exec > MAX_ATTEMPTS

\* C1: with fair workers and timers and no shutdown, every admitted job is
\* eventually counted in processed or appended to the dlq, and a job that is
\* in the queue, in a retry wait or in a bounded put eventually is not.
JobIds == 1 .. BurstJobs

C1_EventuallyTerminal ==
  \A j \in JobIds :
    /\ (j \in Jobs) ~> (j \in Jobs /\ (log[j].proc >= 1 \/ log[j].dead >= 1))
    /\ (InQueue(j) \/ Held(j)) ~> ~(InQueue(j) \/ Held(j))

\* A job that went through a retry wait and a bounded put and was then
\* processed, and a job that was shed to the dlq from a bounded put.
C1_Witness ==
  /\ \E j \in Jobs : log[j].waited /\ log[j].proc = 1
  /\ \E j \in Jobs : log[j].cause = "shed" /\ InDlq(j)

\* ------------------------------------------------- idempotency claims
Live(k) == idem_get_status(idempotency, k, clock) # "none"
RateLimited(st) == st \in {"rate_limited", "rate_limited_client"}

\* The step is an enqueue call with key k that passed both rate limiters.
SubmitPassed(k) ==
  reply'.op = "enqueue" /\ reply'.key = k /\ ~RateLimited(reply'.st)

\* C4: an enqueue call that passes the rate limits and the idempotency check
\* while the queue is at capacity is answered queue_full, and an enqueue call
\* answered queue_full leaves the queue, the enqueued counter and the
\* idempotency table unchanged, so the key is as invisible afterwards as it
\* was before.
C4_Step ==
  \A k \in Keys \cup {NoKey} :
    SubmitPassed(k) =>
      /\ (Len(queue_immediate) = maxsize /\ (k = NoKey \/ ~Live(k))
            => reply'.st = "queue_full")
      /\ (reply'.st = "queue_full"
            => /\ Len(queue_immediate) = maxsize
               /\ UNCHANGED <<queue_immediate, enqueued, idempotency, idem_db, backoff, idem_nosweep, app>>
               /\ (k # NoKey => ~Live(k)'))

C4_QueueFullNoEffect == [][C4_Step]_vars

\* A keyed submit was answered queue_full while its key had no live record.
C4_Witness ==
  /\ reply.op = "enqueue" /\ reply.st = "queue_full" /\ reply.key # NoKey
  /\ Len(queue_immediate) = maxsize
  /\ ~Live(reply.key)

\* C5: after an admission under key k, a submit with key k that passes the
\* rate limits before the record of that admission expires and before the
\* admitted job has succeeded is answered accepted and changes neither the
\* queue nor the enqueued counter.
Pending(j, k) ==
  log[j].key = k /\ log[j].proc = 0 /\ clock < log[j].at + IDEMP_TTL

C5_Step ==
  \A k \in Keys :
    SubmitPassed(k) /\ (\E j \in Jobs : Pending(j, k)) =>
      /\ reply'.st = "accepted"
      /\ UNCHANGED <<queue_immediate, enqueued, idem_db, backoff, idem_nosweep, app>>

C5_DuplicateAccepted == [][C5_Step]_vars

\* C6: if a job admitted under key k succeeded at time s while the record of
\* k was live, then at every time before s + IDEMP_TTL the record is live
\* with status completed, and a submit with key k that passes the rate
\* limits is answered completed.
Done(k) == done_live[k] >= 0 /\ clock < done_live[k] + IDEMP_TTL

C6_State ==
  \A k \in Keys : Done(k) => idem_get_status(idempotency, k, clock) = "completed"

C6_Step ==
  \A k \in Keys : SubmitPassed(k) /\ Done(k) => reply'.st = "completed"

C6_DuplicateCompleted == []C6_State /\ [][C6_Step]_vars

\* A submit was answered completed after the TTL of the admission had run
\* out, within the TTL of the success.
C6_Witness ==
  /\ reply.op = "enqueue" /\ reply.st = "completed" /\ reply.key # NoKey
  /\ Done(reply.key)
  /\ \A j \in Jobs : log[j].key = reply.key => clock >= log[j].at + IDEMP_TTL

\* C7: once key k has no live record it has none at any later time, until
\* an enqueue call with key k is admitted.
Admitted(k) ==
  reply'.op = "enqueue" /\ reply'.key = k /\ reply'.st = "enqueued"

C7_Step ==
  \A k \in Keys :
    idempotency[k].status # "absent" /\ ~Live(k) /\ ~Admitted(k) => ~Live(k)'

C7_ExpiredStaysAbsent == [][C7_Step]_vars

\* ---------------------------------------------------- token bucket claim
\* min(C, k + t*R), in units, for the burst recorded of bucket b.
Available(b) ==
  IF b = Global
  THEN Min(RATE_CAPACITY, burst[b].k + burst[b].elapsed * RATE_REFILL_PER_SEC)
  ELSE Min(CLIENT_RATE_CAPACITY,
           burst[b].k + burst[b].elapsed * CLIENT_RATE_REFILL_PER_SEC)

\* C8: of the unit-cost calls made on a bucket at one instant, where the
\* bucket held k units at its last access t ticks earlier, at most
\* floor(min(C, k + t*R)) succeed, and once a call has failed exactly that
\* many have succeeded, so that every further call fails; a bucket that is
\* full with no time elapsed admits its capacity.  This holds of the global
\* bucket and of each client's bucket.
C8_BurstCount ==
  \A b \in DOMAIN burst :
    burst[b].at >= 0 =>
      /\ burst[b].elapsed >= 0
      /\ burst[b].oks <= Available(b) \div TOKEN
      /\ (burst[b].failed => burst[b].oks = Available(b) \div TOKEN)

\* After a wait a bucket held a fractional number of tokens, admitted the
\* whole part of it and then refused a call, on the global bucket and on a
\* client's bucket.
C8_Witness ==
  \A b \in DOMAIN burst :
    /\ burst[b].at > 0 /\ burst[b].elapsed > 0 /\ burst[b].failed
    /\ Available(b) % TOKEN # 0 /\ burst[b].oks >= 1

\* ------------------------------------------------------ dead-letter claims
\* C11 as stated: every job in the dlq has no attempt left (its next attempt
\* would reach MAX_ATTEMPTS), and every job whose execution failed with no
\* attempt left is in the dlq.
C11_DeadIffCeiling ==
  /\ \A i \in DOMAIN dlq : dlq[i].attempt + 1 >= MAX_ATTEMPTS
  /\ \A j \in Jobs : (log[j].cause = "exhausted" /\ ~log[j].requeued) => InDlq(j)

\* C11 amended: a job in the dlq either failed its execution with no attempt
\* left (attempt = MAX_ATTEMPTS - 1) or was shed by delayed_requeue after the
\* bounded wait for queue room, with attempts left (1 <= attempt <
\* MAX_ATTEMPTS); and every job whose execution failed with no attempt left
\* is in the dlq unless dlq_requeue moved it back.
C11_DeadIffCeilingOrShed ==
  /\ \A i \in DOMAIN dlq :
       \/ /\ log[dlq[i].id].cause = "exhausted"
          /\ dlq[i].attempt = MAX_ATTEMPTS - 1
       \/ /\ log[dlq[i].id].cause = "shed"
          /\ log[dlq[i].id].waited
          /\ dlq[i].attempt >= 1
          /\ dlq[i].attempt < MAX_ATTEMPTS
  /\ \A j \in Jobs : (log[j].cause = "exhausted" /\ ~log[j].requeued) => InDlq(j)

\* The dlq holds a shed job that had attempts left and an exhausted one.
C11_Witness ==
  /\ \E i \in DOMAIN dlq :
       log[dlq[i].id].cause = "shed" /\ dlq[i].attempt + 1 < MAX_ATTEMPTS
  /\ \E i \in DOMAIN dlq : log[dlq[i].id].cause = "exhausted"

\* C12: in every reachable state 0 <= in_progress <= WORKERS.  in_progress
\* counts exactly the workers that are inside process_job, which at a
\* suspension are those in a retry wait, so that the worker that takes a job
\* next raises it to at most WORKERS.
C12_InProgressBounded ==
  /\ in_progress >= 0
  /\ in_progress <= WORKERS
  /\ in_progress = Cardinality(InProcessJob)
  /\ \A w \in Workers : (task[w].pc = "get" => in_progress + 1 <= WORKERS)

\* Every worker is inside process_job, one of them after a dlq_requeue call.
C12_Witness == in_progress = WORKERS /\ requeues > 0 /\ queue_immediate # <<>>

\* C13: every job is admitted with attempt = 0; from one state to the next
\* the attempt of a job stays as it is or grows by one, and it grows only in
\* a failed execution that schedules a retry; every job in the queue, in
\* the dlq or in a retry wait has 0 <= attempt <= MAX_ATTEMPTS and no more
\* attempts than executions, also after dlq_requeue.
HeldItems == {task[w].item : w \in InProcessJob}
QueueItems == {queue_immediate[i] : i \in DOMAIN queue_immediate}
DlqItems == {dlq[i] : i \in DOMAIN dlq}
AllItems == QueueItems \cup DlqItems \cup HeldItems
Present(j) == \E it \in AllItems : it.id = j
AttemptOf(j) == (CHOOSE it \in AllItems : it.id = j).attempt

C13_State ==
  /\ \A it \in AllItems :
       /\ it.attempt >= 0
       /\ it.attempt <= MAX_ATTEMPTS
       /\ it.attempt <= log[it.id].exec
  /\ \A it1, it2 \in AllItems : (it1.id = it2.id => it1 = it2)

C13_Step ==
  /\ \A j \in Jobs' \ Jobs : InQueue(j)' /\ AttemptOf(j)' = 0
  /\ \A j \in Jobs :
       Present(j) /\ Present(j)' =>
         \/ AttemptOf(j)' = AttemptOf(j)
         \/ /\ AttemptOf(j)' = AttemptOf(j) + 1
            /\ failures' = failures + 1
            /\ log'[j].exec = log[j].exec + 1
            /\ InQueue(j) /\ Held(j)'

C13_AttemptMonotone == []C13_State /\ [][C13_Step]_vars

\* A job moved back by dlq_requeue waits in the queue with its last attempt.
C13_Witness ==
  \E it \in QueueItems :
    log[it.id].requeued /\ it.attempt = MAX_ATTEMPTS - 1 /\ log[it.id].exec = MAX_ATTEMPTS

\* C14: the retry wait does not block a worker: however many jobs wait out
\* their backoff delay or the bounded wait for queue room, a job in the
\* queue always has a worker at get() that is free to take it.
C14_RetryDoesNotBlock ==
  queue_immediate # <<>> => \E w \in Workers : task[w].pc = "get"

\* ------------------------------------------------------- dlq endpoints
\* C15: the count dlq_requeue returns is the number of jobs it moved: the
\* decrease of the dlq and the increase of the queue in that call, also when
\* the call stops early on a full queue.
C15_Step ==
  reply'.op = "requeue" =>
    /\ reply'.n = Len(dlq) - Len(dlq')
    /\ reply'.n = Len(queue_immediate') - Len(queue_immediate)

C15_RequeueCount == [][C15_Step]_vars

\* C16: dlq_list leaves the dlq unchanged and answers with count = the size
\* of the dlq and items = its min(limit, size) most recently added jobs,
\* never more than limit of them, for every limit >= 0.
C16_Step ==
  reply'.op = "dlq" =>
    LET k == Min(reply'.limit, Len(dlq))
    IN /\ dlq' = dlq
       /\ reply'.n = Len(dlq)
       /\ Len(reply'.items) <= reply'.limit
       /\ reply'.items = SubSeq(dlq, Len(dlq) - k + 1, Len(dlq))

C16_ListMostRecent == [][C16_Step]_vars

\* ------------------------------------------------------------------ order
IsPrefix(s, t) == Len(s) <= Len(t) /\ SubSeq(t, 1, Len(s)) = s

\* C17: the queue is first-in first-out: a step changes it only by taking
\* its head away (a worker's get) or by adding jobs behind every job already
\* in it (an admission, a retry re-enqueue or the moves of a dlq_requeue);
\* jobs therefore leave in the order of their successful enqueues.
C17_Step ==
  \/ queue_immediate' = queue_immediate
  \/ queue_immediate # <<>> /\ queue_immediate' = Tail(queue_immediate)
  \/ IsPrefix(queue_immediate, queue_immediate')

C17_Fifo == [][C17_Step]_vars

\* A retried job waits at the back, behind a job admitted after it.
C17_Witness ==
  /\ Len(queue_immediate) = 2
  /\ queue_immediate[2].attempt > 0
  /\ ~log[queue_immediate[2].id].requeued
  /\ queue_immediate[2].id < queue_immediate[1].id

\* ------------------------------------------------------- retry scenario
\* The only admitted job, failing its first k < MAX_ATTEMPTS executions.
Solo == Len(log) = 1 /\ log[1].fail_times < MAX_ATTEMPTS

C18_State ==
  Solo =>
    /\ dlq = <<>>
    /\ log[1].dead = 0
    /\ ~log[1].waited
    /\ failures = log[1].exec - log[1].proc
    /\ failures <= log[1].fail_times
    /\ processed = log[1].proc
    /\ (Present(1) => (processed = 0 /\ AttemptOf(1) = failures))
    /\ (~Present(1) =>
          /\ processed = 1
          /\ failures = log[1].fail_times
          /\ in_progress = 0)

\* the execution that succeeds is the one that finds attempt = k
C18_Step ==
  (Solo /\ log[1].proc = 0 /\ log'[1].proc = 1) =>
    /\ Head(queue_immediate).id = 1
    /\ Head(queue_immediate).attempt = log[1].fail_times
    /\ queue_immediate' = <<>>

\* C18: a single admitted job that fails its first k executions and then
\* succeeds (k < MAX_ATTEMPTS, room in the queue at each retry) ends with
\* processed = 1, failures = k, attempt = k and the dlq still empty.
C18_FailKThenSucceed == []C18_State /\ [][C18_Step]_vars

\* The job with k = MAX_ATTEMPTS - 1 has succeeded on its last execution.
C18_Witness ==
  /\ Solo
  /\ log[1].fail_times = MAX_ATTEMPTS - 1
  /\ ~Present(1)
  /\ processed = 1
  /\ failures = MAX_ATTEMPTS - 1

\* --------------------------------------------------------------- shutdown
\* C19: after shutdown no worker dequeues another job, and only jobs still
\* pending in the queue are abandoned: every job a worker had dequeued when
\* shutdown began has an outcome, that is, it is counted in processed, back
\* in the queue or in the dlq.
C19_Step ==
  running = Stopped =>
    /\ queue_immediate' = queue_immediate
    /\ processed' = processed /\ failures' = failures

C19_State ==
  running = Stopped =>
    \A j \in Jobs : log[j].proc > 0 \/ InQueue(j) \/ InDlq(j)

C19_ShutdownLosesNoJob == []C19_State /\ [][C19_Step]_vars

\* ------------------------------------------------------ idempotency backends
\* C20: the memory and the sqlite backend are interchangeable: after the
\* same sequence of get, set_accepted, set_completed and sweep calls at the
\* same clock values, every get returns the same answer (accepted,
\* completed or none) from both.
C20_BackendsAgree ==
  /\ reply.op = "idem_get" => reply.st = reply.db
  /\ \A k \in IdemKeys :
       idem_get_status(idempotency, k, clock) = sqlite_get_status(idem_db, k, clock)

\* Both backends answer completed for a key completed again after its record
\* had expired, while the other key's record was swept from both.
C20_Witness ==
  /\ reply.op = "idem_get"
  /\ reply.st = "completed" /\ reply.db = "completed"
  /\ clock > IDEMP_TTL
  /\ \E k \in IdemKeys : idempotency[k] = Absent /\ sqlite_select(idem_db, k) = {}
  /\ idem_db # {}

\* -------------------------------------------------------- admission order
\* the client whose bucket the step charged, if any
Charged(c) ==
  /\ rl_consume_client(c, TOKEN).ok
  /\ client_buckets' = [client_buckets EXCEPT ![c] =
                          [present |-> TRUE,
                           tokens |-> rl_consume_client(c, TOKEN).b.tokens,
                           last |-> rl_consume_client(c, TOKEN).b.last]]

C21_Step ==
  reply'.op = "enqueue" =>
    /\ (reply'.st = "rate_limited" =>
          /\ ~rl_consume(TOKEN).ok
          /\ client_buckets' = client_buckets
          /\ idempotency' = idempotency
          /\ queue_immediate' = queue_immediate
          /\ enqueued' = enqueued)
    /\ (reply'.st # "rate_limited" =>
          /\ rl_consume(TOKEN).ok
          /\ tokens' = rl_consume(TOKEN).b.tokens)
    /\ (reply'.st = "rate_limited_client" =>
          /\ \E c \in DOMAIN client_buckets : ~rl_consume_client(c, TOKEN).ok
          /\ idempotency' = idempotency
          /\ queue_immediate' = queue_immediate
          /\ enqueued' = enqueued)
    /\ (~RateLimited(reply'.st) => \E c \in DOMAIN client_buckets : Charged(c))
    /\ (reply'.st \in {"accepted", "completed"} =>
          /\ reply'.st = idem_get_status(idempotency, reply'.key, clock)
          /\ queue_immediate' = queue_immediate
          /\ enqueued' = enqueued)
    /\ (reply'.st = "queue_full" =>
          /\ (reply'.key # NoKey => ~Live(reply'.key))
          /\ full(queue_immediate))
    /\ (reply'.st = "enqueued" =>
          /\ (reply'.key # NoKey => ~Live(reply'.key))
          /\ ~full(queue_immediate)
          /\ enqueued' = enqueued + 1)

\* C21: the admission checks short-circuit in the order global bucket,
\* client bucket, idempotency, queue: a submit is admitted only if both
\* buckets accepted it, and a submit the global bucket rejects leaves every
\* client bucket (tokens and number of buckets), the idempotency table, the
\* queue and enqueued unchanged.
C21_AdmissionOrder == [][C21_Step]_vars

\* The global bucket has rejected the first call of a client: the client
\* still has no bucket, while the other client's bucket is in use.
C21_Witness ==
  /\ reply.op = "enqueue" /\ reply.st = "rate_limited"
  /\ \E c \in DOMAIN client_buckets : ~client_buckets[c].present
  /\ \E c \in DOMAIN client_buckets : client_buckets[c].present

\* ------------------------------------------------------------ retry hand-over
\* worker w leaves its backoff sleep in this step
C22_TimerFires(w) ==
  (task[w].pc = "sleep" /\ task'[w] # task[w]) =>
    /\ dlq' = dlq
    /\ IF full(queue_immediate)
       THEN /\ task'[w] = [pc |-> "put", item |-> task[w].item]
            /\ queue_immediate' = queue_immediate
       ELSE /\ task'[w].pc = "get"
            /\ queue_immediate' = Append(queue_immediate, task[w].item)

\* worker w leaves the bounded wait for room in this step
C22_WaitEnds(w) ==
  (task[w].pc = "put" /\ task'[w] # task[w]) =>
    /\ task'[w].pc = "get"
    /\ \/ /\ ~full(queue_immediate)
          /\ queue_immediate' = Append(queue_immediate, task[w].item)
          /\ dlq' = dlq
       \/ /\ queue_immediate' = queue_immediate
          /\ dlq' = Append(dlq, task[w].item)

C22_Step == \A w \in Workers : C22_TimerFires(w) /\ C22_WaitEnds(w)

\* C22: when the retry delay of a failed job expires the job is enqueued at
\* once if the queue has room; otherwise it waits once for room and is
\* enqueued if room appears, or else appended to the dlq.  It lands in
\* exactly one of the two, is never dropped and never waits for ever.
C22_RetryLands ==
  /\ [][C22_Step]_vars
  /\ \A w \in Workers : (task[w].pc \in {"sleep", "put"}) ~> (task[w].pc = "get")

\* One retried job was shed after its wait for room, another one waited and
\* then found room.
C22_Witness ==
  \E j, k \in Jobs :
    /\ log[j].cause = "shed" /\ InDlq(j)
    /\ log[k].waited /\ log[k].dead = 0 /\ InQueue(k)

\* ------------------------------------------------------------ dlq order
C23_Step ==
  IF reply'.op = "requeue"
  THEN \E n \in 0..Min(reply'.limit, Len(dlq)) :
         /\ queue_immediate' = queue_immediate \o SubSeq(dlq, 1, n)
         /\ dlq' = SubSeq(dlq, n + 1, Len(dlq))
  ELSE IsPrefix(dlq, dlq')

\* C23: dlq_requeue moves jobs oldest first: the moved jobs are a prefix of
\* the dlq of length at most limit, they enter the queue in their dlq order
\* and the dlq afterwards is the remaining suffix in unchanged order; every
\* other step changes the dlq only by appending at its end.
C23_OldestFirst == [][C23_Step]_vars

\* Two jobs were moved in dlq order and a third one stayed behind.
C23_Witness ==
  /\ reply.op = "requeue" /\ reply.n = 2
  /\ Len(queue_immediate) = 2
  /\ log[queue_immediate[1].id].requeued /\ log[queue_immediate[2].id].requeued
  /\ Len(dlq) = 1

\* ------------------------------------------------------- requeued attempts
\* job j was dead-lettered with its budget exhausted and moved back since
Revived(j) == log[j].cause = "exhausted" /\ log[j].requeued /\ ~InDlq(j)

C24_State ==
  \A j \in Jobs :
    Revived(j) =>
      /\ ~Held(j)
      /\ InQueue(j)
      /\ AttemptOf(j) = MAX_ATTEMPTS - 1

C24_Step ==
  /\ reply'.op = "requeue" =>
       \A i \in DOMAIN queue_immediate' :
         i > Len(queue_immediate) =>
           \E k \in DOMAIN dlq : dlq[k] = queue_immediate'[i]
  /\ \A j \in Jobs :
       (Revived(j) /\ log'[j].exec # log[j].exec) =>
         /\ log'[j].exec = log[j].exec + 1
         /\ failures' = failures + 1
         /\ processed' = processed
         /\ dlq' = Append(dlq, Head(queue_immediate))
         /\ Head(queue_immediate).id = j
         /\ ~Held(j)'

\* C24: dlq_requeue leaves the attempt of every job it moves unchanged, so
\* a job dead-lettered by retry exhaustion and moved back is appended to the
\* dlq again after a single failed execution, with no retry in between.
C24_RequeueKeepsAttempt == []C24_State /\ [][C24_Step]_vars

\* A job is in the dlq for the second time, one execution after its requeue.
C24_Witness ==
  \E j \in Jobs :
    /\ log[j].requeued /\ InDlq(j)
    /\ log[j].dead = 2
    /\ log[j].exec = MAX_ATTEMPTS + 1

\* ------------------------------------------------------------------ sweep
C25_Removed(k) == idempotency[k] # Absent /\ idempotency'[k] = Absent

C25_Step ==
  /\ Sweep =>
       \A k \in Keys :
         /\ (idempotency[k].expires_at <= clock => idempotency'[k] = Absent)
         /\ (idempotency[k].expires_at > clock => idempotency'[k] = idempotency[k])
         /\ (Live(k) => idempotency'[k] = idempotency[k])
  /\ \A k \in Keys : C25_Removed(k) => (Sweep /\ ~Live(k))

\* C25: a sweep at time now removes exactly the idempotency records with
\* expires_at <= now: each of them is removed, none with expires_at > now
\* is, and so no record that get reports as accepted or completed at that
\* time is removed.
C25_SweepExact == [][C25_Step]_vars

\* The record of an admitted job's key is gone: a sweep has removed it.
C25_Witness ==
  \E j \in Jobs :
    /\ log[j].key # NoKey
    /\ idempotency[log[j].key] = Absent
    /\ clock >= log[j].at + IDEMP_TTL

\* --------------------------------------------------------------- counters
\* a worker takes the head of the queue and executes it in this step
Executes == queue_immediate # <<>> /\ queue_immediate' = Tail(queue_immediate)
ExecFails == Executes /\ Head(queue_immediate).attempt < Head(queue_immediate).fail_times
ExecSucceeds == Executes /\ ~ExecFails
Admits == reply'.op = "enqueue" /\ reply'.st = "enqueued"

C26_Step ==
  /\ enqueued' = enqueued + (IF Admits THEN 1 ELSE 0)
  /\ failures' = failures + (IF ExecFails THEN 1 ELSE 0)
  /\ processed' = processed + (IF ExecSucceeds THEN 1 ELSE 0)
  /\ (Admits => /\ Len(log') = Len(log) + 1
                /\ queue_immediate' =
                     Append(queue_immediate,
                            [id |-> Len(log'), attempt |-> 0,
                             fail_times |-> log'[Len(log')].fail_times,
                             key |-> reply'.key]))
  /\ (Executes <=> \E j \in Jobs : log'[j].exec = log[j].exec + 1)
  /\ (ExecSucceeds <=> \E j \in Jobs : log'[j].proc = log[j].proc + 1)

\* C26: enqueued, processed and failures never decrease; enqueued grows by
\* exactly one per admitted submit and is unchanged by retry re-enqueues and
\* by dlq_requeue; failures grows by exactly one per failed execution and
\* processed by exactly one per successful execution.
C26_Counters == [][C26_Step]_vars

\* One admission, while retries and a dlq_requeue have put the job into the
\* queue several times.
C26_Witness ==
  /\ enqueued = 1 /\ Len(log) = 1
  /\ failures = MAX_ATTEMPTS + 1
  /\ requeues > 0
  /\ processed = 0

\* ------------------------------------------------------------ in_progress
\* The workers whose job operation is running.  The operation runs without
\* suspending, so at the states between steps a worker is either at get()
\* or in a retry wait and none is executing.
Executing == {w \in Workers : task[w].pc \notin {"get", "sleep", "put"}}

\* C27: in_progress is decremented before a failed job is handed to the
\* retry decision: it never counts a job that waits out its backoff or waits
\* for queue room, and so always equals the number of jobs whose operation
\* is executing.
C27_CountsOnlyExecuting ==
  /\ in_progress = Cardinality(Executing)
  /\ \A w \in Workers : task[w].pc \in {"sleep", "put"} => in_progress = 0

\* ---------------------------------------------------------------- backoff
\* C28: the delay d of a retry with next_attempt n >= 1 satisfies
\* min(BACKOFF_BASE * 2^(n-1), BACKOFF_CAP) <= d and
\* d <= min(BACKOFF_BASE * 2^(n-1) + JITTER, BACKOFF_CAP); so d never
\* exceeds BACKOFF_CAP and its jitter-free part does not decrease with n.
C28_DelayBounds ==
  backoff.n >= 1 =>
    /\ Min(backoff_base(backoff.n), BACKOFF_CAP) <= backoff.delay
    /\ backoff.delay <= Min(backoff_base(backoff.n) + JITTER, BACKOFF_CAP)
    /\ backoff.delay <= BACKOFF_CAP
    /\ backoff_delay(backoff.n, 0) = Min(backoff_base(backoff.n), BACKOFF_CAP)
    /\ backoff_delay(backoff.n, 0) <= backoff_delay(backoff.n + 1, 0)

\* A delay cut down to the cap although no jitter was added.
C28_Witness ==
  /\ backoff.n >= 1 /\ backoff.u = 0
  /\ backoff_base(backoff.n) > BACKOFF_CAP
  /\ backoff.delay = BACKOFF_CAP

\* ---------------------------------------------------------- token buckets
C29_State ==
  /\ 0 <= tokens /\ tokens <= RATE_CAPACITY
  /\ \A c \in DOMAIN client_buckets :
       client_buckets[c].present =>
         (0 <= client_buckets[c].tokens /\ client_buckets[c].tokens <= CLIENT_RATE_CAPACITY)

\* what the global bucket holds after the refill at the time of the call
C29_Refilled == Min(RATE_CAPACITY, tokens + Max(0, clock - last_refill) * RATE_REFILL_PER_SEC)

\* the same for the bucket of client c, created full at its first call
C29_ClientRefilled(c) ==
  IF client_buckets[c].present
  THEN Min(CLIENT_RATE_CAPACITY,
           client_buckets[c].tokens
             + Max(0, clock - client_buckets[c].last) * CLIENT_RATE_REFILL_PER_SEC)
  ELSE CLIENT_RATE_CAPACITY

\* the step called the bucket of client c and left the others alone
C29_ClientCall(c, cost) ==
  /\ client_buckets'[c] = [present |-> TRUE, tokens |-> C29_ClientRefilled(c) - cost,
                           last |-> clock]
  /\ \A d \in DOMAIN client_buckets : d # c => client_buckets'[d] = client_buckets[d]

C29_Step ==
  IF reply'.op = "enqueue"
  THEN /\ last_refill' = clock
       /\ IF reply'.st = "rate_limited"
          THEN /\ C29_Refilled < TOKEN
               /\ tokens' = C29_Refilled
               /\ client_buckets' = client_buckets
          ELSE /\ C29_Refilled >= TOKEN
               /\ tokens' = C29_Refilled - TOKEN
               /\ \E c \in DOMAIN client_buckets :
                    IF reply'.st = "rate_limited_client"
                    THEN C29_ClientRefilled(c) < TOKEN /\ C29_ClientCall(c, 0)
                    ELSE C29_ClientRefilled(c) >= TOKEN /\ C29_ClientCall(c, TOKEN)
  ELSE /\ tokens' = tokens /\ last_refill' = last_refill
       /\ client_buckets' = client_buckets

\* C29: every token bucket, global and per client, always holds between 0
\* and its capacity; a rejected consume subtracts nothing (it only applies
\* the refill and updates the refill time) and an accepted one subtracts
\* exactly its cost.
C29_Buckets == []C29_State /\ [][C29_Step]_vars

\* A rejected call has left the client's bucket with its refill, less than
\* one token, and the new refill time.
C29_Witness ==
  /\ reply.op = "enqueue" /\ reply.st = "rate_limited_client"
  /\ clock > 0
  /\ \E c \in DOMAIN client_buckets :
       /\ client_buckets[c].present
       /\ client_buckets[c].tokens > 0 /\ client_buckets[c].tokens < TOKEN
       /\ client_buckets[c].last = clock

\* ------------------------------------------------------------ one place
\* the number of places that hold job j: positions in the queue, positions
\* in the dlq, and workers holding it in a retry wait
Places(j) ==
  Cardinality({i \in DOMAIN queue_immediate : queue_immediate[i].id = j})
    + Cardinality({i \in DOMAIN dlq : dlq[i].id = j})
    + Cardinality({w \in InProcessJob : task[w].item.id = j})

\* C30: every admitted job that has not succeeded is in exactly one place:
\* once in the queue, held by one worker in its retry wait, or once in the
\* dlq; no job is held by two workers, twice in the queue, or in the queue
\* and the dlq at once, also when dlq_requeue stops early on a full queue.
C30_OnePlace ==
  \A j \in Jobs :
    /\ (log[j].proc = 0 => Places(j) = 1)
    /\ (log[j].proc > 0 => Places(j) = 0)
    /\ log[j].proc <= 1

\* dlq_requeue has stopped at a full queue: one job moved, the next stayed.
C30_Witness ==
  /\ reply.op = "requeue" /\ reply.limit = 2 /\ reply.n = 2
  /\ full(queue_immediate)
  /\ Cardinality({i \in DOMAIN queue_immediate :
                    log[queue_immediate[i].id].requeued}) = 1
  /\ dlq # <<>>

\* ------------------------------------------------------ concurrent submits
\* the step admits a job that carries key k
AdmitsKey(k) == reply'.op = "enqueue" /\ reply'.st = "enqueued" /\ reply'.key = k

C31_Step ==
  \A k \in Keys :
    AdmitsKey(k) =>
      /\ ~Live(k)
      /\ idempotency'[k] = [status |-> "accepted", expires_at |-> clock + IDEMP_TTL]
      /\ idem_get_status(idempotency', k, clock') = "accepted"

C31_State ==
  \A i, j \in Jobs :
    (i # j /\ log[i].key # NoKey /\ log[i].key = log[j].key) => log[i].at # log[j].at

\* C31: the idempotency check, the enqueue and set_accepted of one submit
\* are atomic with respect to other submits: of two submits that carry the
\* same key at the same time, with no live record yet, at most one is
\* admitted and enqueued.
C31_OneAdmission == []C31_State /\ [][C31_Step]_vars

\* The second of two submits with the same key at the same time was
\* answered as a duplicate of the first, whose job is still in the queue.
C31_Witness ==
  /\ reply.op = "enqueue" /\ reply.st = "accepted" /\ reply.key # NoKey
  /\ Len(log) = 1 /\ log[1].key = reply.key /\ log[1].at = clock
  /\ InQueue(1)
  /\ enqueued = 1

\* ------------------------------------------------------------ conservation
\* C33: in every reachable state without shutdown, enqueued = processed +
\* the size of the dlq + the size of the queue + the number of jobs held by
\* workers, also across retries and dlq_requeue calls.
C33_Conservation ==
  enqueued = processed + Len(dlq) + Len(queue_immediate) + Cardinality(InProcessJob)

\* After a dlq_requeue call: one job done, one dead, one held in a retry wait.
C33_Witness ==
  /\ enqueued = 3 /\ requeues > 0
  /\ processed = 1
  /\ Len(dlq) = 1
  /\ Cardinality(InProcessJob) = 1

\* ---------------------------------------------------------------- no refund
\* the step charged one token to the bucket of some client
C34_ClientCharged ==
  \E c \in DOMAIN client_buckets :
    /\ C29_ClientRefilled(c) >= TOKEN
    /\ client_buckets'[c].tokens = C29_ClientRefilled(c) - TOKEN

C34_Step ==
  reply'.op = "enqueue" =>
    /\ (reply'.st = "rate_limited" =>
          /\ tokens' = C29_Refilled
          /\ client_buckets' = client_buckets)
    /\ (reply'.st = "rate_limited_client" =>
          /\ tokens' = C29_Refilled - TOKEN
          /\ C29_Refilled >= TOKEN
          /\ ~C34_ClientCharged)
    /\ (reply'.st \in {"accepted", "completed", "queue_full"} =>
          /\ tokens' = C29_Refilled - TOKEN
          /\ C34_ClientCharged
          /\ enqueued' = enqueued
          /\ queue_immediate' = queue_immediate)

\* C34: rejections after the first check do not refund tokens: a submit the
\* client bucket rejects leaves the global bucket one token below its
\* refilled value, a submit answered as a duplicate or with queue_full
\* leaves both buckets one token lower, and only the global rejection
\* consumes nothing.
C34_NoRefund == [][C34_Step]_vars

\* A submit was answered as a duplicate and both buckets paid for it.
C34_Witness ==
  /\ reply.op = "enqueue" /\ reply.st = "accepted"
  /\ enqueued = 1 /\ clock = 0
  /\ tokens = RATE_CAPACITY - 2 * TOKEN
  /\ \E c \in DOMAIN client_buckets :
       client_buckets[c].present /\ client_buckets[c].tokens = CLIENT_RATE_CAPACITY - 2 * TOKEN

\* ------------------------------------------------------- sweep observability
\* C35: the sweep is not observable: a run with sweeps at arbitrary points
\* and a run with no sweep, given the same set_accepted and set_completed
\* calls at the same clock values, answer every get alike; in particular
\* set_completed has the same visible effect whether or not the key's
\* expired record was swept first.
C35_SweepUnobservable ==
  /\ reply.op = "twin_get" => reply.st = reply.twin
  /\ \A k \in IdemKeys :
       idem_get_status(idempotency, k, clock) = idem_get_status(idem_nosweep, k, clock)

\* ----------------------------------------------- dead letters and their keys
\* the step appends job j to the dlq
DeadLetters(j) == log'[j].dead = log[j].dead + 1

\* the record written at the admission of job j has not expired
OwnRecordLive(j) == log[j].key # NoKey /\ clock < log[j].at + IDEMP_TTL

C36_Frame ==
  \A j \in Jobs :
    (DeadLetters(j) /\ log[j].key # NoKey) =>
      /\ idempotency' = idempotency
      /\ (OwnRecordLive(j) =>
            idempotency[log[j].key] =
              [status |-> "accepted", expires_at |-> log[j].at + IDEMP_TTL])

C36_Answer ==
  \A j \in Jobs :
    (InDlq(j) /\ OwnRecordLive(j) /\ SubmitPassed(log[j].key)) =>
      /\ reply'.st = "accepted"
      /\ queue_immediate' = queue_immediate

C36_Step == C36_Frame /\ C36_Answer

\* C36: dead-lettering does not touch the idempotency table: when a job
\* with key K is appended to the dlq, by retry exhaustion or by the full
\* queue, K's record stays accepted with its expires_at unchanged, so every
\* submit with key K before that expiry is answered as a duplicate with
\* status accepted.
C36_DeadKeyStaysAccepted == [][C36_Step]_vars

\* ---------------------------------------------------------------------------
\* The threaded variant (app.py): handler, worker threads and main.
\* ---------------------------------------------------------------------------
service_vars ==
  <<queue_immediate, maxsize, processed, failures, enqueued, in_progress, dlq,
    idempotency, tokens, last_refill, client_buckets, clock, task, running,
    reply, log, done_live, requeues, burst, idem_db, backoff, idem_nosweep>>

\* job_q = queue.Queue(maxsize=Q_MAX)
job_q_full(q) == Len(q) >= AppQMax

\* Handler.do_POST, path /enqueue: 429 when the queue is full, else the parsed
\* body itself is put on the queue, whatever it is.
do_POST(a, body) ==
  IF job_q_full(a.job_q)
    THEN [a EXCEPT !.posts = @ + 1]
    ELSE [a EXCEPT !.posts = @ + 1,
                   !.job_q = Append(@, QItem(body, a.posts + 1))]

\* the try block of worker raises: int() refuses attempt or fail_times, or the
\* simulated failure (attempt < fail_times); a value that is no dict reads 0, 0
try_raises(v) ==
  /\ v.kind = "dict"
  /\ \/ ~v.attempt_int
     \/ ~v.fail_times_int
     \/ v.attempt < v.fail_times

\* the failure handler wraps a value that is no dict as {"payload": item}
wrapped(v) == IF v.kind = "dict" THEN v ELSE PyDict(0, TRUE, 0, TRUE)

\* int(item.get("attempt", 0)) in the failure handler raises again
handler_raises(v) == ~wrapped(v).attempt_int

item_attempt(v) == wrapped(v).attempt + 1

\* the item the failure handler re-enqueues: item["attempt"] = item_attempt
retry_item(a, it) ==
  QItem([wrapped(it.v) EXCEPT !.attempt = item_attempt(it.v), !.attempt_int = TRUE], it.id)

\* one pass of the worker loop from job_q.get() to its next blocking call or
\* to the thread's end
worker(a, w) ==
  LET it == Head(a.job_q)
      b == [a EXCEPT !.job_q = Tail(@)]
      ran == [b EXCEPT !.runs[it.id] = @ + 1]
      failed == [ran EXCEPT !.failures = @ + 1, !.fails[it.id] = @ + 1]
      next == retry_item(a, it)
  IN  IF it.v.kind = "none"
        THEN [b EXCEPT !.threads[w].pc = "exited", !.threads[w].nones = @ + 1]
      ELSE IF ~try_raises(it.v)
        THEN [ran EXCEPT !.processed = @ + 1]
      ELSE IF handler_raises(it.v)
        THEN [failed EXCEPT !.threads[w].pc = "raised"]
      ELSE IF next.v.attempt < MAX_ATTEMPTS
        THEN [failed EXCEPT !.threads[w].pc = "sleep", !.threads[w].item = next]
      ELSE [failed EXCEPT !.dlq = Append(@, next)]

\* a worker thread dequeues an item and handles it
Worker(w) ==
  /\ app.threads[w].pc = "get"
  /\ app.job_q # <<>>
  /\ app' = worker(app, w)
  /\ UNCHANGED service_vars

\* time.sleep(delay) is over: job_q.put_nowait(item), or on queue.Full the
\* thread goes on to job_q.put(item, timeout=1)
AppRequeue(w) ==
  /\ app.threads[w].pc = "sleep"
  /\ app' = IF job_q_full(app.job_q)
              THEN [app EXCEPT !.threads[w].pc = "put"]
              ELSE [app EXCEPT !.job_q = Append(@, app.threads[w].item),
                               !.threads[w].pc = "get",
                               !.threads[w].item = NoQItem]
  /\ UNCHANGED service_vars

\* job_q.put(item, timeout=1) finds room within the second
AppPutDone(w) ==
  /\ app.threads[w].pc = "put"
  /\ ~job_q_full(app.job_q)
  /\ app' = [app EXCEPT !.job_q = Append(@, app.threads[w].item),
                        !.threads[w].pc = "get",
                        !.threads[w].item = NoQItem]
  /\ UNCHANGED service_vars

\* job_q.put(item, timeout=1) raises queue.Full: the item goes to dlq
AppPutTimeout(w) ==
  /\ app.threads[w].pc = "put"
  /\ job_q_full(app.job_q)
  /\ app' = [app EXCEPT !.dlq = Append(@, app.threads[w].item),
                        !.threads[w].pc = "get",
                        !.threads[w].item = NoQItem]
  /\ UNCHANGED service_vars

\* a client posts a body to /enqueue while the server serves
Post(body) ==
  /\ app.main.pc = "serve_forever"
  /\ app.posts < MaxPosts
  /\ app' = do_POST(app, body)
  /\ UNCHANGED service_vars

\* KeyboardInterrupt ends serve_forever; main goes on to its finally block
Interrupt ==
  /\ app.main.pc = "serve_forever"
  /\ app' = [app EXCEPT !.main.pc = "put"]
  /\ UNCHANGED service_vars

\* for _ in threads: job_q.put(None), a put that blocks while the queue is full
MainPut ==
  /\ app.main.pc = "put"
  /\ ~job_q_full(app.job_q)
  /\ app' = [app EXCEPT !.job_q = Append(@, QItem(PyNone, 0)),
                        !.main.puts = @ + 1,
                        !.main.pc = IF app.main.puts + 1 = WORKERS THEN "join" ELSE "put"]
  /\ UNCHANGED service_vars

\* for t in threads: t.join(), which returns once thread t has ended
MainJoin ==
  /\ app.main.pc = "join"
  /\ app.threads[app.main.joined + 1].pc \in {"exited", "raised"}
  /\ app' = [app EXCEPT !.main.joined = @ + 1,
                        !.main.pc = IF app.main.joined + 1 = WORKERS THEN "done" ELSE "join"]
  /\ UNCHANGED service_vars

ThreadNext ==
  \/ \E body \in Bodies : Post(body)
  \/ \E w \in Workers : Worker(w)
  \/ \E w \in Workers : AppRequeue(w)
  \/ \E w \in Workers : AppPutDone(w)
  \/ \E w \in Workers : AppPutTimeout(w)
  \/ Interrupt
  \/ MainPut
  \/ MainJoin

ThreadSpec == Init /\ [][ThreadNext]_vars

\* the worker threads and main run on; a blocked call stays blocked
ThreadLiveSpec ==
  /\ ThreadSpec
  /\ \A w \in Workers :
       WF_vars(Worker(w) \/ AppRequeue(w) \/ AppPutDone(w) \/ AppPutTimeout(w))
  /\ WF_vars(MainPut \/ MainJoin)

\* ---------------------------------------------------------------------------
\* Claims on the threaded variant
\* ---------------------------------------------------------------------------
AppJobs == 1..MaxPosts
InAppDlq(j) == \E i \in 1..Len(app.dlq) : app.dlq[i].id = j

\* C32: whatever body a client posts to /enqueue, the resulting job is executed
\* at most MAX_ATTEMPTS times, and once it has failed MAX_ATTEMPTS times it is
\* in the dead-letter list.
C32_BoundedExecutions ==
  \A j \in AppJobs :
    /\ app.runs[j] <= MAX_ATTEMPTS
    /\ (app.fails[j] >= MAX_ATTEMPTS) => InAppDlq(j)

Ended(w) == app.threads[w].pc \in {"exited", "raised"}

\* C37: until shutdown begins, every worker thread is still in its loop,
\* whatever bodies clients have posted: none has left through a None taken
\* from the queue or through an error escaping the failure handler.
C37_WorkersStay ==
  (app.main.pc = "serve_forever") => (\A w \in Workers : ~Ended(w))

\* C38: once main has put one None per worker, eventually every worker thread
\* has dequeued exactly one None and exited and every join has returned; no
\* worker ever dequeues a second None.
C38_AllExitOnSentinel ==
  /\ [](\A w \in Workers : app.threads[w].nones <= 1)
  /\ (app.main.pc = "join") ~>
       (/\ app.main.pc = "done"
        /\ \A w \in Workers : app.threads[w].pc = "exited" /\ app.threads[w].nones = 1)

====
